---- MODULE Spec2Model ----
(***************************************************************************)
(* Frame-resource ring and fence-synchronised Update/Draw loop of          *)
(* ShapesApp (Week4-1-BoxUsingFrameResources.cpp); CrateApp runs the same  *)
(* loop.  The CPU thread is a program counter `pc`; the GPU is a second    *)
(* timeline that consumes the command queue in submission order.           *)
(* Matrix entries are fixed-point tenths (1.0f is written 10).             *)
(***************************************************************************)
EXTENDS Integers, Sequences, FiniteSets, TLC

\* ------------------------------------------------------------------ bounds
MaxFrames == 7
NumRitems == 2

\* ------------------------------------------------------- program constants
gNumFrameResources == 3
SwapChainBufferCount == 2

VARIABLES
    pc,                      \* position of the control thread
    mFrameResources,         \* slot index -> [Fence, CmdListAlloc, ObjectCB, PassCB]
    mCurrFrameResource,      \* slot the pointer refers to, nullptr before the first Update
    mCurrFrameResourceIndex,
    mAllRitems,              \* item -> [World, NumFramesDirty, ObjCBIndex]
    mCurrentFence,           \* CPU-side counter of issued fence points
    mFence,                  \* mFence->GetCompletedValue()
    mCommandQueue,           \* work submitted to the GPU and not yet finished
    mCommandList,            \* what the command list was last recorded with
    mIsWireframe,
    mCurrBackBuffer,
    frame,                   \* history: number of Update calls begun
    waited,                  \* history: the current frame's Update took the fence wait
    objWrites,               \* history: ObjCBIndex values written by the last UpdateObjectCBs
    sweeps,                  \* history: item -> UpdateObjectCBs sweeps since its data was set (capped)
    superseded,              \* history: item -> World replaced while partly propagated, or Uninit
    hr,                      \* history: the device call that returned a failure, or "S_OK"
    mSwapChainBuffer         \* back buffer -> resource state on the GPU timeline

vars == <<pc, mFrameResources, mCurrFrameResource, mCurrFrameResourceIndex, mAllRitems,
          mCurrentFence, mFence, mCommandQueue, mCommandList, mIsWireframe,
          mCurrBackBuffer, frame, waited, objWrites, sweeps, superseded, hr,
          mSwapChainBuffer>>

nullptr == 0 - 1
Uninit == <<>>

Slots == DOMAIN mFrameResources
Ritems == DOMAIN mAllRitems

\* ------------------------------------------------------------ pure helpers
XMMatrixTranslation(x, y, z) ==
    << <<10, 0, 0, 0>>, <<0, 10, 0, 0>>, <<0, 0, 10, 0>>, <<x, y, z, 10>> >>

XMMatrixTranspose_Identity(m) == m

XMMatrixTranspose(m) == [r \in 1..4 |-> [c \in 1..4 |-> m[c][r]]]

Identity4x4 == << <<10, 0, 0, 0>>, <<0, 10, 0, 0>>, <<0, 0, 10, 0>>, <<0, 0, 0, 10>> >>

\* World matrices BuildRenderItems stores, by position in mAllRitems.
RitemWorld(i) ==
    CASE i = 0 -> XMMatrixTranslation(10, 0 - 10, 10)
      [] i = 1 -> XMMatrixTranslation(10, 30, 10)
      [] i = 2 -> XMMatrixTranslation(55, 30, 55)
      [] OTHER -> XMMatrixTranslation(0 - 35, 30, 55)

RenderItem_Clean == [World |-> Identity4x4, NumFramesDirty |-> 0, ObjCBIndex |-> 0 - 1]

\* UINT values are written in two's complement: 0 - 1 stands for UINT_MAX,
\* and sums of such values are the sums modulo 2^32.
RenderItem == [World |-> Identity4x4, NumFramesDirty |-> gNumFrameResources, ObjCBIndex |-> 0 - 1]

BuildRenderItems ==
    [i \in 0..(NumRitems - 1) |-> [RenderItem EXCEPT !.World = RitemWorld(i), !.ObjCBIndex = i]]

FrameResource(passCount, objectCount) ==
    [Fence |-> 0, CmdListAlloc |-> <<>>,
     ObjectCB |-> [k \in 0..(objectCount - 1) |-> Uninit],
     PassCB |-> [k \in 0..(passCount - 1) |-> Uninit]]

\* A scene in which the ObjCBIndex assignment of the last item was left out.
BuildRenderItems_DefaultIndex ==
    [i \in 0..(NumRitems - 1) |->
        IF i = NumRitems - 1 THEN [RenderItem EXCEPT !.World = RitemWorld(i)]
        ELSE [RenderItem EXCEPT !.World = RitemWorld(i), !.ObjCBIndex = i]]

BuildFrameResources_BeforeItems(ritems) ==
    [s \in 0..(gNumFrameResources - 1) |-> FrameResource(1, 0)]

BuildFrameResources(ritems) ==
    [s \in 0..(gNumFrameResources - 1) |-> FrameResource(1, Cardinality(DOMAIN ritems))]

Rotate_Stuck(idx) == idx

Rotate_Skip(idx) == (idx + 2) % gNumFrameResources

Rotate(idx) == (idx + 1) % gNumFrameResources

MustWait_Reversed(slotFence, completedValue) == slotFence /= 0 /\ completedValue > slotFence

MustWait_Never(slotFence, completedValue) == FALSE

MustWait_OrEqual(slotFence, completedValue) == slotFence /= 0 /\ completedValue <= slotFence

MustWait_IgnoresGpu(slotFence, completedValue) == slotFence /= 0

MustWait_OffByOne(slotFence, completedValue) == slotFence /= 0 /\ completedValue + 1 < slotFence

MustWait(slotFence, completedValue) == slotFence /= 0 /\ completedValue < slotFence

EventSignaled_Timeout(slotFence, completedValue) == TRUE

EventSignaled_Early(slotFence, completedValue) == completedValue + 1 >= slotFence

EventSignaled(slotFence, completedValue) == completedValue >= slotFence

NextFence_NoIncrement(f) == f

NextFence(f) == f + 1

KeyDown(key) == (key \div 32768) % 2 = 1

\* UploadBuffer<T>::CopyData(elementIndex, data): the element must lie inside
\* the buffer's capacity; the call that violates this reports it and writes
\* nothing.
CopyDataOk_Unchecked(cb, elementIndex) == TRUE

CopyDataOk(cb, elementIndex) == elementIndex \in DOMAIN cb

CopyData(cb, elementIndex, data) ==
    IF elementIndex \in DOMAIN cb THEN [cb EXCEPT ![elementIndex] = data] ELSE cb

\* The sweep of UpdateObjectCBs over items i..n-1, in vector order: st is
\* [items, cb, written, violation]; the sweep ends at a violated precondition.
RECURSIVE SweepFrom(_, _, _)
SweepFrom(i, n, st) ==
    IF i >= n THEN st
    ELSE LET e == st.items[i] IN
         IF e.NumFramesDirty > 0
         THEN IF CopyDataOk(st.cb, e.ObjCBIndex)
              THEN SweepFrom(i + 1, n,
                     [st EXCEPT !.items[i].NumFramesDirty = @ - 1,
                                !.cb = CopyData(@, e.ObjCBIndex, XMMatrixTranspose(e.World)),
                                !.written = @ \cup {i}])
              ELSE [st EXCEPT !.violation = TRUE]
         ELSE SweepFrom(i + 1, n, st)

RECURSIVE SweepFrom_OffByOne(_, _, _)
SweepFrom_OffByOne(i, n, st) ==
    IF i >= n THEN st
    ELSE LET e == st.items[i] IN
         IF e.NumFramesDirty > 1
         THEN IF CopyDataOk(st.cb, e.ObjCBIndex)
              THEN SweepFrom_OffByOne(i + 1, n,
                     [st EXCEPT !.items[i].NumFramesDirty = @ - 1,
                                !.cb = CopyData(@, e.ObjCBIndex, XMMatrixTranspose(e.World)),
                                !.written = @ \cup {i}])
              ELSE [st EXCEPT !.violation = TRUE]
         ELSE SweepFrom_OffByOne(i + 1, n, st)

RECURSIVE SweepFrom_NoGuard(_, _, _)
SweepFrom_NoGuard(i, n, st) ==
    IF i >= n THEN st
    ELSE LET e == st.items[i] IN
         IF CopyDataOk(st.cb, e.ObjCBIndex)
         THEN SweepFrom_NoGuard(i + 1, n,
                [st EXCEPT !.items[i].NumFramesDirty = @ - 1,
                           !.cb = CopyData(@, e.ObjCBIndex, XMMatrixTranspose(e.World)),
                           !.written = @ \cup {i}])
         ELSE [st EXCEPT !.violation = TRUE]

UpdateObjectCBs_OffByOne(items, cb) ==
    SweepFrom_OffByOne(0, Cardinality(DOMAIN items), [items |-> items, cb |-> cb, written |-> {}, violation |-> FALSE])

UpdateObjectCBs_NoGuard(items, cb) ==
    SweepFrom_NoGuard(0, Cardinality(DOMAIN items), [items |-> items, cb |-> cb, written |-> {}, violation |-> FALSE])

UpdateObjectCBs(items, cb) ==
    SweepFrom(0, Cardinality(DOMAIN items), [items |-> items, cb |-> cb, written |-> {}, violation |-> FALSE])

UpdateMainPassCB(totalTime) == [NearZ |-> 10, FarZ |-> 10000, TotalTime |-> totalTime]

\* ------------------------------------------------------------------- Init
Init ==
    /\ pc = "Initialize"
    /\ mFrameResources = <<>>
    /\ mCurrFrameResource = nullptr
    /\ mCurrFrameResourceIndex = 0
    /\ mAllRitems = <<>>
    /\ mCurrentFence = 0
    /\ mFence = 0
    /\ mCommandQueue = <<>>
    /\ mCommandList = [alloc |-> nullptr, pso |-> "none", passCbv |-> nullptr, draws |-> <<>>]
    /\ mIsWireframe = FALSE
    /\ mCurrBackBuffer = 0
    /\ frame = 0
    /\ waited = FALSE
    /\ objWrites = {}
    /\ sweeps = <<>>
    /\ superseded = <<>>
    /\ hr = "S_OK"
    /\ mSwapChainBuffer = [b \in 0..(SwapChainBufferCount - 1) |-> "PRESENT"]

\* --------------------------------------------------------- CPU operations
\* D3DApp::FlushCommandQueue, first half: issue a new fence point and signal it.
FlushSignal(queue) == Append(queue, [kind |-> "Signal", arg |-> mCurrentFence + 1])

InitializeWith_NoFlush(ritems) ==
    /\ pc = "Initialize"
    /\ mAllRitems' = ritems
    /\ mFrameResources' = BuildFrameResources(ritems)
    /\ sweeps' = [i \in DOMAIN ritems |-> 0]
    /\ superseded' = [i \in DOMAIN ritems |-> Uninit]
    /\ mCommandList' = [alloc |-> nullptr, pso |-> "none", passCbv |-> nullptr, draws |-> <<>>]
    /\ mCommandQueue' = Append(mCommandQueue, [kind |-> "ExecuteCommandLists", arg |-> nullptr])
    /\ pc' = "Update"
    /\ UNCHANGED <<mCurrFrameResource, mCurrFrameResourceIndex, mCurrentFence, mFence,
                   mIsWireframe, mCurrBackBuffer, frame, waited, objWrites, hr,
                   mSwapChainBuffer>>

InitializeWith(ritems) ==
    /\ pc = "Initialize"
    /\ mAllRitems' = ritems
    /\ mFrameResources' = BuildFrameResources(ritems)
    /\ sweeps' = [i \in DOMAIN ritems |-> 0]
    /\ superseded' = [i \in DOMAIN ritems |-> Uninit]
    /\ mCommandList' = [alloc |-> nullptr, pso |-> "none", passCbv |-> nullptr, draws |-> <<>>]
    /\ mCommandQueue' = FlushSignal(Append(mCommandQueue,
                            [kind |-> "ExecuteCommandLists", arg |-> nullptr]))
    /\ mCurrentFence' = mCurrentFence + 1
    /\ pc' = "InitFlush"
    /\ UNCHANGED <<mCurrFrameResource, mCurrFrameResourceIndex, mFence, mIsWireframe,
                   mCurrBackBuffer, frame, waited, objWrites, hr,
                   mSwapChainBuffer>>

Initialize == InitializeWith(BuildRenderItems)

\* D3DApp::FlushCommandQueue, second half: block until the fence reaches mCurrentFence.
FlushWait ==
    /\ pc \in {"InitFlush", "ExitFlush"}
    /\ mFence >= mCurrentFence
    /\ pc' = IF pc = "InitFlush" THEN "Update" ELSE "Done"
    /\ UNCHANGED <<mFrameResources, mCurrFrameResource, mCurrFrameResourceIndex, mAllRitems,
                   mCurrentFence, mFence, mCommandQueue, mCommandList, mIsWireframe,
                   mCurrBackBuffer, frame, waited, objWrites, sweeps, superseded, hr,
                   mSwapChainBuffer>>

Update_WireframeHoldsRing(key) ==
    /\ pc = "Update"
    /\ frame < MaxFrames
    /\ mIsWireframe' = KeyDown(key)
    /\ mCurrFrameResourceIndex' =
          IF KeyDown(key) /\ mCurrFrameResource /= nullptr
          THEN mCurrFrameResourceIndex ELSE Rotate(mCurrFrameResourceIndex)
    /\ mCurrFrameResource' = mCurrFrameResourceIndex'
    /\ LET block == MustWait(mFrameResources[mCurrFrameResource'].Fence, mFence) IN
         /\ waited' = block
         /\ pc' = IF block THEN "Wait" ELSE "UpdateCBs"
    /\ frame' = frame + 1
    /\ UNCHANGED <<mFrameResources, mAllRitems, mCurrentFence, mFence, mCommandQueue,
                   mCommandList, mCurrBackBuffer, objWrites, sweeps, superseded, hr,
                   mSwapChainBuffer>>

\* Update up to and including the fence test.  UpdateCamera only recomputes
\* mEyePos and mView from the mouse state and is left out.
Update(key) ==
    /\ pc = "Update"
    /\ frame < MaxFrames
    /\ mIsWireframe' = KeyDown(key)
    /\ mCurrFrameResourceIndex' = Rotate(mCurrFrameResourceIndex)
    /\ mCurrFrameResource' = mCurrFrameResourceIndex'
    /\ LET block == MustWait(mFrameResources[mCurrFrameResource'].Fence, mFence) IN
         /\ waited' = block
         /\ pc' = IF block THEN "Wait" ELSE "UpdateCBs"
    /\ frame' = frame + 1
    /\ UNCHANGED <<mFrameResources, mAllRitems, mCurrentFence, mFence, mCommandQueue,
                   mCommandList, mCurrBackBuffer, objWrites, sweeps, superseded, hr,
                   mSwapChainBuffer>>

WaitReturn_ClearsFence ==
    /\ pc = "Wait"
    /\ EventSignaled(mFrameResources[mCurrFrameResource].Fence, mFence)
    /\ mFrameResources' = [mFrameResources EXCEPT ![mCurrFrameResource].Fence = 0]
    /\ pc' = "UpdateCBs"
    /\ UNCHANGED <<mCurrFrameResource, mCurrFrameResourceIndex, mAllRitems,
                   mCurrentFence, mFence, mCommandQueue, mCommandList, mIsWireframe,
                   mCurrBackBuffer, frame, waited, objWrites, sweeps, superseded, hr,
                   mSwapChainBuffer>>

WaitReturn_TimesOut ==
    /\ pc = "Wait"
    /\ pc' = "UpdateCBs"
    /\ UNCHANGED <<mFrameResources, mCurrFrameResource, mCurrFrameResourceIndex, mAllRitems,
                   mCurrentFence, mFence, mCommandQueue, mCommandList, mIsWireframe,
                   mCurrBackBuffer, frame, waited, objWrites, sweeps, superseded, hr,
                   mSwapChainBuffer>>

\* WaitForSingleObject returns once the event set by SetEventOnCompletion fires.
WaitReturn ==
    /\ pc = "Wait"
    /\ EventSignaled(mFrameResources[mCurrFrameResource].Fence, mFence)
    /\ pc' = "UpdateCBs"
    /\ UNCHANGED <<mFrameResources, mCurrFrameResource, mCurrFrameResourceIndex, mAllRitems,
                   mCurrentFence, mFence, mCommandQueue, mCommandList, mIsWireframe,
                   mCurrBackBuffer, frame, waited, objWrites, sweeps, superseded, hr,
                   mSwapChainBuffer>>

UpdateCBs_PassOnlyWhenDirty ==
    /\ pc = "UpdateCBs"
    /\ LET r == UpdateObjectCBs(mAllRitems, mFrameResources[mCurrFrameResource].ObjectCB) IN
         /\ mAllRitems' = r.items
         /\ mFrameResources' = [mFrameResources EXCEPT
                                  ![mCurrFrameResource].ObjectCB = r.cb,
                                  ![mCurrFrameResource].PassCB =
                                      IF r.violation \/ r.written = {} THEN @ ELSE CopyData(@, 0, UpdateMainPassCB(frame))]
         /\ objWrites' = r.written
         /\ pc' = IF r.violation THEN "PreconditionViolation" ELSE "Draw"
    /\ sweeps' = [i \in DOMAIN sweeps |->
                    IF sweeps[i] < gNumFrameResources THEN sweeps[i] + 1 ELSE sweeps[i]]
    /\ UNCHANGED <<mCurrFrameResource, mCurrFrameResourceIndex, mCurrentFence, mFence,
                   mCommandQueue, mCommandList, mIsWireframe, mCurrBackBuffer, frame, waited,
                   superseded, hr,
                   mSwapChainBuffer>>

\* The rest of Update: UpdateObjectCBs then UpdateMainPassCB on the current slot.
UpdateCBs ==
    /\ pc = "UpdateCBs"
    /\ LET r == UpdateObjectCBs(mAllRitems, mFrameResources[mCurrFrameResource].ObjectCB) IN
         /\ mAllRitems' = r.items
         /\ mFrameResources' = [mFrameResources EXCEPT
                                  ![mCurrFrameResource].ObjectCB = r.cb,
                                  ![mCurrFrameResource].PassCB =
                                      IF r.violation THEN @ ELSE CopyData(@, 0, UpdateMainPassCB(frame))]
         /\ objWrites' = r.written
         /\ pc' = IF r.violation THEN "PreconditionViolation" ELSE "Draw"
    /\ sweeps' = [i \in DOMAIN sweeps |->
                    IF sweeps[i] < gNumFrameResources THEN sweeps[i] + 1 ELSE sweeps[i]]
    /\ UNCHANGED <<mCurrFrameResource, mCurrFrameResourceIndex, mCurrentFence, mFence,
                   mCommandQueue, mCommandList, mIsWireframe, mCurrBackBuffer, frame, waited,
                   superseded, hr,
                   mSwapChainBuffer>>

\* BuildRenderItems ends by pushing every item of mAllRitems, in order.
mOpaqueRitems == [k \in 1..Cardinality(Ritems) |-> k - 1]

mPassCbvOffset_ObjCount == Len(mOpaqueRitems)

\* BuildDescriptorHeaps: the pass CBVs follow the object CBVs of all slots.
mPassCbvOffset == Len(mOpaqueRitems) * gNumFrameResources

\* BuildConstantBufferViews: heap index -> the buffer element the view addresses.
mCbvHeap ==
    [h \in 0..((Len(mOpaqueRitems) + 1) * gNumFrameResources - 1) |->
        IF h < mPassCbvOffset
        THEN [slot |-> h \div Len(mOpaqueRitems), buffer |-> "ObjectCB", element |-> h % Len(mOpaqueRitems)]
        ELSE [slot |-> h - mPassCbvOffset, buffer |-> "PassCB", element |-> 0]]

CbvIndex_NoFrameOffset(frameIndex, objCount, objCBIndex) == objCBIndex

\* DrawRenderItems: UINT cbvIndex = mCurrFrameResourceIndex * size + ri->ObjCBIndex.
CbvIndex(frameIndex, objCount, objCBIndex) == frameIndex * objCount + objCBIndex

Barrier(resource, before, after) ==
    [op |-> "ResourceBarrier", resource |-> resource, before |-> before, after |-> after]

\* The object descriptor table and the draw call of the k-th opaque item.
DrawCmds(k) ==
    << [op    |-> "SetGraphicsRootDescriptorTable", root |-> 0,
        index |-> CbvIndex(mCurrFrameResourceIndex, Len(mOpaqueRitems),
                           mAllRitems[mOpaqueRitems[k]].ObjCBIndex)],
       [op |-> "DrawIndexedInstanced", item |-> mOpaqueRitems[k]] >>

RECURSIVE DrawRenderItems(_)
DrawRenderItems(k) ==
    IF k > Len(mOpaqueRitems) THEN <<>> ELSE DrawCmds(k) \o DrawRenderItems(k + 1)

RecordedCmds_NoFinalBarrier ==
    << Barrier(mCurrBackBuffer, "PRESENT", "RENDER_TARGET"),
       [op |-> "ClearRenderTargetView", resource |-> mCurrBackBuffer],
       [op |-> "ClearDepthStencilView"],
       [op |-> "OMSetRenderTargets", resource |-> mCurrBackBuffer],
       [op |-> "SetGraphicsRootDescriptorTable", root |-> 1,
        index |-> mPassCbvOffset + mCurrFrameResourceIndex] >>
    \o DrawRenderItems(1)

\* The command stream Draw records into the current slot's allocator.
RecordedCmds ==
    << Barrier(mCurrBackBuffer, "PRESENT", "RENDER_TARGET"),
       [op |-> "ClearRenderTargetView", resource |-> mCurrBackBuffer],
       [op |-> "ClearDepthStencilView"],
       [op |-> "OMSetRenderTargets", resource |-> mCurrBackBuffer],
       [op |-> "SetGraphicsRootDescriptorTable", root |-> 1,
        index |-> mPassCbvOffset + mCurrFrameResourceIndex] >>
    \o DrawRenderItems(1)
    \o << Barrier(mCurrBackBuffer, "RENDER_TARGET", "PRESENT") >>

\* The GPU running a command stream from position i: st is [states, ok];
\* ok turns FALSE at a barrier whose before-state is not the resource's
\* state and at a clear of a buffer that is not a render target.
RECURSIVE ExecuteCmds(_, _, _)
ExecuteCmds(cmds, i, st) ==
    IF i > Len(cmds) THEN st
    ELSE LET c == cmds[i] IN
         IF c.op = "ResourceBarrier"
         THEN ExecuteCmds(cmds, i + 1,
                [states |-> [st.states EXCEPT ![c.resource] = c.after],
                 ok     |-> st.ok /\ st.states[c.resource] = c.before])
         ELSE IF c.op = "ClearRenderTargetView"
         THEN ExecuteCmds(cmds, i + 1,
                [st EXCEPT !.ok = @ /\ st.states[c.resource] = "RENDER_TARGET"])
         ELSE ExecuteCmds(cmds, i + 1, st)

\* What Draw records between the command-list Reset and Close: the pass
\* descriptor table, then per entry of mOpaqueRitems its object descriptor
\* table and one DrawIndexedInstanced.
RecordedList ==
    [alloc   |-> mCurrFrameResource,
     pso     |-> IF mIsWireframe THEN "opaque_wireframe" ELSE "opaque",
     passCbv |-> mPassCbvOffset + mCurrFrameResourceIndex,
     draws   |-> [k \in DOMAIN mOpaqueRitems |->
                    [item     |-> mOpaqueRitems[k],
                     cbvIndex |-> CbvIndex(mCurrFrameResourceIndex, Len(mOpaqueRitems),
                                           mAllRitems[mOpaqueRitems[k]].ObjCBIndex)]]]

\* Draw: allocator reset, command-list reset and recording, Close.
DrawRecord ==
    /\ pc = "Draw"
    /\ mFrameResources' = [mFrameResources EXCEPT ![mCurrFrameResource].CmdListAlloc = RecordedCmds]
    /\ mCommandList' = RecordedList
    /\ pc' = "Execute"
    /\ UNCHANGED <<mCurrFrameResource, mCurrFrameResourceIndex, mAllRitems,
                   mCurrentFence, mFence, mCommandQueue, mIsWireframe, mCurrBackBuffer,
                   frame, waited, objWrites, sweeps, superseded, hr,
                   mSwapChainBuffer>>

DrawExecute ==
    /\ pc = "Execute"
    /\ mCommandQueue' = Append(mCommandQueue,
                               [kind |-> "ExecuteCommandLists", arg |-> mCommandList.alloc])
    /\ pc' = "Present"
    /\ UNCHANGED <<mFrameResources, mCurrFrameResource, mCurrFrameResourceIndex, mAllRitems,
                   mCurrentFence, mFence, mCommandList, mIsWireframe, mCurrBackBuffer,
                   frame, waited, objWrites, sweeps, superseded, hr,
                   mSwapChainBuffer>>

DrawPresent_SkipsStamp ==
    /\ pc = "Present"
    /\ mCurrBackBuffer' = (mCurrBackBuffer + 1) % SwapChainBufferCount
    /\ pc' = "Update"
    /\ UNCHANGED <<mFrameResources, mCurrFrameResource, mCurrFrameResourceIndex, mAllRitems,
                   mCurrentFence, mFence, mCommandQueue, mCommandList, mIsWireframe,
                   frame, waited, objWrites, sweeps, superseded, hr,
                   mSwapChainBuffer>>

DrawPresent ==
    /\ pc = "Present"
    /\ mCurrBackBuffer' = (mCurrBackBuffer + 1) % SwapChainBufferCount
    /\ pc' = "Stamp"
    /\ UNCHANGED <<mFrameResources, mCurrFrameResource, mCurrFrameResourceIndex, mAllRitems,
                   mCurrentFence, mFence, mCommandQueue, mCommandList, mIsWireframe,
                   frame, waited, objWrites, sweeps, superseded, hr,
                   mSwapChainBuffer>>

DrawStamp_PostIncrement ==
    /\ pc = "Stamp"
    /\ mCurrentFence' = NextFence(mCurrentFence)
    /\ mFrameResources' = [mFrameResources EXCEPT ![mCurrFrameResource].Fence = mCurrentFence]
    /\ mCommandQueue' = Append(mCommandQueue, [kind |-> "Signal", arg |-> mCurrentFence'])
    /\ pc' = "Update"
    /\ UNCHANGED <<mCurrFrameResource, mCurrFrameResourceIndex, mAllRitems, mFence,
                   mCommandList, mIsWireframe, mCurrBackBuffer, frame, waited, objWrites,
                   sweeps, superseded, hr,
                   mSwapChainBuffer>>

DrawStamp_SignalsStale ==
    /\ pc = "Stamp"
    /\ mCurrentFence' = NextFence(mCurrentFence)
    /\ mFrameResources' = [mFrameResources EXCEPT ![mCurrFrameResource].Fence = mCurrentFence']
    /\ mCommandQueue' = Append(mCommandQueue, [kind |-> "Signal", arg |-> mCurrentFence])
    /\ pc' = "Update"
    /\ UNCHANGED <<mCurrFrameResource, mCurrFrameResourceIndex, mAllRitems, mFence,
                   mCommandList, mIsWireframe, mCurrBackBuffer, frame, waited, objWrites,
                   sweeps, superseded, hr,
                   mSwapChainBuffer>>

\* mCurrFrameResource->Fence = ++mCurrentFence; mCommandQueue->Signal(mFence, mCurrentFence).
DrawStamp ==
    /\ pc = "Stamp"
    /\ mCurrentFence' = NextFence(mCurrentFence)
    /\ mFrameResources' = [mFrameResources EXCEPT ![mCurrFrameResource].Fence = mCurrentFence']
    /\ mCommandQueue' = Append(mCommandQueue, [kind |-> "Signal", arg |-> mCurrentFence'])
    /\ pc' = "Update"
    /\ UNCHANGED <<mCurrFrameResource, mCurrFrameResourceIndex, mAllRitems, mFence,
                   mCommandList, mIsWireframe, mCurrBackBuffer, frame, waited, objWrites,
                   sweeps, superseded, hr,
                   mSwapChainBuffer>>

\* ~ShapesApp: FlushCommandQueue before the members are released.
Destructor_NoFlush ==
    /\ pc = "Update"
    /\ pc' = "Done"
    /\ UNCHANGED <<mFrameResources, mCurrFrameResource, mCurrFrameResourceIndex, mAllRitems,
                   mCurrentFence, mFence, mCommandQueue, mCommandList, mIsWireframe,
                   mCurrBackBuffer, frame, waited, objWrites, sweeps, superseded, hr,
                   mSwapChainBuffer>>

Destructor ==
    /\ pc = "Update"
    /\ mCommandQueue' = FlushSignal(mCommandQueue)
    /\ mCurrentFence' = mCurrentFence + 1
    /\ pc' = "ExitFlush"
    /\ UNCHANGED <<mFrameResources, mCurrFrameResource, mCurrFrameResourceIndex, mAllRitems,
                   mFence, mCommandList, mIsWireframe, mCurrBackBuffer, frame, waited,
                   objWrites, sweeps, superseded, hr,
                   mSwapChainBuffer>>

\* --------------------------------------------------------- GPU timeline
\* The commands of a queued list are those held by its allocator; the
\* initialization list (allocator of the application, not of a slot) touches
\* no back buffer.
CmdsOf(entry) ==
    IF entry.arg = nullptr THEN <<>> ELSE mFrameResources[entry.arg].CmdListAlloc

GpuExecute ==
    /\ mCommandQueue /= <<>>
    /\ Head(mCommandQueue).kind = "ExecuteCommandLists"
    /\ mSwapChainBuffer' = ExecuteCmds(CmdsOf(Head(mCommandQueue)), 1,
                                       [states |-> mSwapChainBuffer, ok |-> TRUE]).states
    /\ mCommandQueue' = Tail(mCommandQueue)
    /\ UNCHANGED <<pc, mFrameResources, mCurrFrameResource, mCurrFrameResourceIndex,
                   mAllRitems, mCurrentFence, mFence, mCommandList, mIsWireframe,
                   mCurrBackBuffer, frame, waited, objWrites, sweeps, superseded, hr>>

GpuSignal_OutOfOrder ==
    \E j \in 1..Len(mCommandQueue) :
       /\ mCommandQueue[j].kind = "Signal"
       /\ mFence' = mCommandQueue[j].arg
       /\ mCommandQueue' = [k \in 1..(Len(mCommandQueue) - 1) |->
                              IF k < j THEN mCommandQueue[k] ELSE mCommandQueue[k + 1]]
       /\ UNCHANGED <<pc, mFrameResources, mCurrFrameResource, mCurrFrameResourceIndex,
                      mAllRitems, mCurrentFence, mCommandList, mIsWireframe,
                      mCurrBackBuffer, frame, waited, objWrites, sweeps, superseded, hr,
                   mSwapChainBuffer>>

GpuSignal ==
    /\ mCommandQueue /= <<>>
    /\ Head(mCommandQueue).kind = "Signal"
    /\ mFence' = Head(mCommandQueue).arg
    /\ mCommandQueue' = Tail(mCommandQueue)
    /\ UNCHANGED <<pc, mFrameResources, mCurrFrameResource, mCurrFrameResourceIndex,
                   mAllRitems, mCurrentFence, mCommandList, mIsWireframe,
                   mCurrBackBuffer, frame, waited, objWrites, sweeps, superseded, hr,
                   mSwapChainBuffer>>

\* ----------------------------------------------------------- specification
KeyStates == {0, 1, 32768, 32769}

UpdateStep == \E key \in KeyStates : Update(key)

Next ==
    \/ Initialize
    \/ FlushWait
    \/ UpdateStep
    \/ WaitReturn
    \/ UpdateCBs
    \/ DrawRecord
    \/ DrawExecute
    \/ DrawPresent
    \/ DrawStamp
    \/ Destructor
    \/ GpuExecute
    \/ GpuSignal

Spec == Init /\ [][Next]_vars

\* The control thread keeps running once a frame or a flush has begun, and
\* the GPU works off its queue: every submitted list finishes, every Signal
\* is processed.
CpuStep ==
    \/ FlushWait
    \/ WaitReturn
    \/ UpdateCBs
    \/ DrawRecord
    \/ DrawExecute
    \/ DrawPresent
    \/ DrawStamp

SpecLive == Spec /\ WF_vars(CpuStep) /\ WF_vars(GpuExecute) /\ WF_vars(GpuSignal)

\* ------------------------------------------- caller changing a transform
\* The convention of RenderItem::NumFramesDirty: whoever modifies an item's
\* data sets the countdown to gNumFrameResources.  Done by the control
\* thread between frames.
NewWorlds == {XMMatrixTranslation(0, 20, 0), XMMatrixTranslation(30, 0, 0 - 10)}

SetWorld(i, w) ==
    /\ pc = "Update"
    /\ i \in Ritems
    /\ w /= mAllRitems[i].World
    /\ mAllRitems' = [mAllRitems EXCEPT ![i].World = w,
                                        ![i].NumFramesDirty = gNumFrameResources]
    /\ sweeps' = [sweeps EXCEPT ![i] = 0]
    /\ superseded' = [superseded EXCEPT ![i] =
                         IF mAllRitems[i].NumFramesDirty \in 1..(gNumFrameResources - 1)
                         THEN mAllRitems[i].World ELSE Uninit]
    /\ UNCHANGED <<pc, mFrameResources, mCurrFrameResource, mCurrFrameResourceIndex,
                   mCurrentFence, mFence, mCommandQueue, mCommandList, mIsWireframe,
                   mCurrBackBuffer, frame, waited, objWrites, hr,
                   mSwapChainBuffer>>

\* The item the caller moves: the first one built (gridRitem).
SetWorldStep == \E i \in Ritems \cap {0} : \E w \in NewWorlds : SetWorld(i, w)

NextModify == Next \/ SetWorldStep

SpecModify == Init /\ [][NextModify]_vars

\* ------------------------------------------------- failing device calls
\* ThrowIfFailed(mFence->SetEventOnCompletion(...)) throws: Update has rotated
\* and found the slot busy, and never reaches WaitForSingleObject.
UpdateSetEventFails(key) ==
    /\ pc = "Update"
    /\ frame < MaxFrames
    /\ MustWait(mFrameResources[Rotate(mCurrFrameResourceIndex)].Fence, mFence)
    /\ mIsWireframe' = KeyDown(key)
    /\ mCurrFrameResourceIndex' = Rotate(mCurrFrameResourceIndex)
    /\ mCurrFrameResource' = mCurrFrameResourceIndex'
    /\ waited' = FALSE
    /\ frame' = frame + 1
    /\ hr' = "SetEventOnCompletion"
    /\ pc' = "Throw"
    /\ UNCHANGED <<mFrameResources, mAllRitems, mCurrentFence, mFence, mCommandQueue,
                   mCommandList, mCurrBackBuffer, objWrites, sweeps, superseded,
                   mSwapChainBuffer>>

\* ThrowIfFailed throws on the allocator Reset, the command-list Reset or Close.
DrawRecordFails(call) ==
    /\ pc = "Draw"
    /\ mCommandList' = IF call = "Close" THEN RecordedList ELSE mCommandList
    /\ mFrameResources' = [mFrameResources EXCEPT ![mCurrFrameResource].CmdListAlloc =
                              CASE call = "Close" -> RecordedCmds
                                [] call = "mCommandList->Reset" -> <<>>
                                [] OTHER -> @]
    /\ hr' = call
    /\ pc' = "Throw"
    /\ UNCHANGED <<mCurrFrameResource, mCurrFrameResourceIndex, mAllRitems,
                   mCurrentFence, mFence, mCommandQueue, mIsWireframe, mCurrBackBuffer,
                   frame, waited, objWrites, sweeps, superseded,
                   mSwapChainBuffer>>

\* ThrowIfFailed(mSwapChain->Present(0, 0)) throws; the list is already submitted.
DrawPresentFails ==
    /\ pc = "Present"
    /\ hr' = "Present"
    /\ pc' = "Throw"
    /\ UNCHANGED <<mFrameResources, mCurrFrameResource, mCurrFrameResourceIndex, mAllRitems,
                   mCurrentFence, mFence, mCommandQueue, mCommandList, mIsWireframe,
                   mCurrBackBuffer, frame, waited, objWrites, sweeps, superseded,
                   mSwapChainBuffer>>

\* mCommandQueue->Signal fails: the slot is already stamped, nothing is
\* enqueued, and the HRESULT is not looked at.
DrawStampSignalFails ==
    /\ pc = "Stamp"
    /\ mCurrentFence' = NextFence(mCurrentFence)
    /\ mFrameResources' = [mFrameResources EXCEPT ![mCurrFrameResource].Fence = mCurrentFence']
    /\ hr' = "Signal"
    /\ pc' = "Update"
    /\ UNCHANGED <<mCurrFrameResource, mCurrFrameResourceIndex, mAllRitems, mFence,
                   mCommandQueue, mCommandList, mIsWireframe, mCurrBackBuffer, frame, waited,
                   objWrites, sweeps, superseded,
                   mSwapChainBuffer>>

\* The DxException leaves the try block of WinMain: theApp is destroyed
\* (~ShapesApp flushes the queue), then the handler runs.
Unwind ==
    /\ pc = "Throw"
    /\ mCommandQueue' = FlushSignal(mCommandQueue)
    /\ mCurrentFence' = mCurrentFence + 1
    /\ pc' = "UnwindFlush"
    /\ UNCHANGED <<mFrameResources, mCurrFrameResource, mCurrFrameResourceIndex, mAllRitems,
                   mFence, mCommandList, mIsWireframe, mCurrBackBuffer, frame, waited,
                   objWrites, sweeps, superseded, hr,
                   mSwapChainBuffer>>

Catch ==
    /\ pc = "UnwindFlush"
    /\ mFence >= mCurrentFence
    /\ pc' = "Catch"
    /\ UNCHANGED <<mFrameResources, mCurrFrameResource, mCurrFrameResourceIndex, mAllRitems,
                   mCurrentFence, mFence, mCommandQueue, mCommandList, mIsWireframe,
                   mCurrBackBuffer, frame, waited, objWrites, sweeps, superseded, hr,
                   mSwapChainBuffer>>

UpdateSetEventFailsStep == \E key \in KeyStates : UpdateSetEventFails(key)

DrawRecordFailsStep == \E call \in {"CmdListAlloc->Reset", "mCommandList->Reset", "Close"} : DrawRecordFails(call)

NextFail ==
    \/ Next
    \/ UpdateSetEventFailsStep
    \/ DrawRecordFailsStep
    \/ DrawPresentFails
    \/ DrawStampSignalFails
    \/ Unwind
    \/ Catch

SpecFail == Init /\ [][NextFail]_vars

\* ------------------------------------------------ a scene built wrongly
InitializeMisuse == InitializeWith(BuildRenderItems_DefaultIndex)

NextMisuse ==
    \/ InitializeMisuse
    \/ Next

SpecMisuse == Init /\ [][NextMisuse]_vars

\* ------------------------------------------------------ derived notions
CurrFence == mFrameResources[mCurrFrameResource].Fence

SlotReusable == CurrFence = 0 \/ mFence >= CurrFence

\* Slots whose stamped marker the GPU has not reached: frames in flight.
InFlight == Cardinality({s \in Slots : mFrameResources[s].Fence /= 0 /\ mFence < mFrameResources[s].Fence})

\* Number of frames whose constant-buffer update has been carried out.
FramesUpdated == IF pc \in {"Wait", "UpdateCBs"} THEN frame - 1 ELSE frame

\* ================================================================ claims

\* C1: when Update is about to write the selected slot's constant buffers,
\* the slot's Fence is 0 or the completed value has reached it.
C1_NoPrematureReuse == pc = "UpdateCBs" => SlotReusable

\* A frame that had to wait stands at the buffer writes of a stamped slot.
C1_Witness == pc = "UpdateCBs" /\ waited /\ CurrFence /= 0

\* C2: when Draw is about to reset the current slot's command allocator, the
\* completed value has reached that slot's Fence or the slot was never
\* stamped; the GPU may lag by any amount.
C2_AllocatorResetSafe ==
    [][(pc = "Draw" /\ pc' = "Execute") => (CurrFence = 0 \/ mFence >= CurrFence)]_vars

\* Draw has reset the allocator of a slot stamped before, while GPU work is pending.
C2_Witness ==
    /\ pc = "Execute"
    /\ CurrFence /= 0
    /\ mCommandList.alloc = mCurrFrameResource
    /\ mCommandQueue /= <<>>

\* C3: Update goes past the fence test without waiting exactly when the
\* selected slot's Fence is 0 or already completed; otherwise it blocks, and
\* it resumes only with the completed value at or beyond the slot's Fence.
C3_SynchronizePolicy ==
    [][ /\ (pc = "Update" /\ pc' \in {"Wait", "UpdateCBs"}) =>
             LET f == mFrameResources[mCurrFrameResource'].Fence IN
               /\ (pc' = "UpdateCBs") <=> (f = 0 \/ mFence >= f)
               /\ (pc' = "Wait") <=> ~(f = 0 \/ mFence >= f)
        /\ (pc = "Wait" /\ pc' /= "Wait") => (pc' = "UpdateCBs" /\ mFence' >= CurrFence)
      ]_vars

\* Update is blocked on a slot whose marker the GPU has not reached.
C3_Witness == pc = "Wait" /\ mFence < CurrFence

\* C4 as stated: the slot selected for frame F, counting frames from 0 at the
\* first Update, is F mod gNumFrameResources.  (frame - 1 is the number F of
\* the frame in progress.)
C4_SlotIsFrameModN ==
    frame >= 1 => mCurrFrameResourceIndex = (frame - 1) % gNumFrameResources

\* C4 amended: the slot selected for frame F is (F + 1) mod gNumFrameResources,
\* the index starting at 0 and being advanced before its first use.
C4_SlotIsFramePlusOneModN ==
    frame >= 1 => mCurrFrameResourceIndex = ((frame - 1) + 1) % gNumFrameResources

\* The ring has wrapped: the fifth frame (F = 4) is in progress.
C4_Witness == frame = 5 /\ pc = "UpdateCBs" /\ mCurrFrameResourceIndex = 2

\* C5: the ring index stays in 0..N-1; it advances by exactly 1 mod N in the
\* Update call of each frame and in no other step; from the first Update on
\* the current-slot pointer is the slot at the ring index.
C5_RingAdvance ==
    /\ [](mCurrFrameResourceIndex \in 0..(gNumFrameResources - 1))
    /\ [](frame >= 1 => mCurrFrameResource = mCurrFrameResourceIndex)
    /\ [][IF pc = "Update" /\ pc' \in {"Wait", "UpdateCBs"}
          THEN /\ mCurrFrameResourceIndex' = (mCurrFrameResourceIndex + 1) % gNumFrameResources
               /\ mCurrFrameResource' = mCurrFrameResourceIndex'
               /\ frame' = frame + 1
          ELSE /\ mCurrFrameResourceIndex' = mCurrFrameResourceIndex
               /\ mCurrFrameResource' = mCurrFrameResource
               /\ frame' = frame]_vars

\* Draw is stamping the slot that the third Update selected, the index having wrapped to 0.
C5_Witness ==
    /\ pc = "Stamp"
    /\ frame = 3
    /\ mCurrFrameResourceIndex = 0
    /\ mCurrFrameResource = 0
    /\ mCommandList.alloc = 0

\* C6: every Stamp stores the pre-incremented mCurrentFence, a value above
\* every marker stored before it, and the completed value never exceeds the
\* highest marker issued (mCurrentFence).
C6_MarkerMonotonic ==
    /\ [](mFence <= mCurrentFence)
    /\ [][(pc = "Stamp" /\ pc' = "Update") =>
            /\ mCurrentFence' = mCurrentFence + 1
            /\ mFrameResources'[mCurrFrameResource].Fence = mCurrentFence'
            /\ \A s \in Slots : mFrameResources[s].Fence < mFrameResources'[mCurrFrameResource].Fence
            /\ \A s \in Slots \ {mCurrFrameResource} :
                   mFrameResources'[s].Fence = mFrameResources[s].Fence]_vars

\* A slot has been stamped a second time, above the other slots, with the GPU behind.
C6_Witness ==
    /\ pc = "Update"
    /\ frame = 4
    /\ CurrFence = mCurrentFence
    /\ \A s \in Slots \ {mCurrFrameResource} : 0 < mFrameResources[s].Fence /\ mFrameResources[s].Fence < CurrFence
    /\ mFence < mCurrentFence

\* C7: every item's NumFramesDirty is in 0..N; UpdateObjectCBs lowers it by
\* exactly 1 for each item whose constants it writes and leaves the others
\* alone; no step of the frame loop raises it.
C7_DirtyCountdown ==
    /\ [](\A i \in Ritems : mAllRitems[i].NumFramesDirty \in 0..gNumFrameResources)
    /\ [][\A i \in Ritems :
            LET old == mAllRitems[i].NumFramesDirty
                new == mAllRitems'[i].NumFramesDirty
                idx == mAllRitems[i].ObjCBIndex
                wrote == mFrameResources'[mCurrFrameResource].ObjectCB[idx] = XMMatrixTranspose(mAllRitems[i].World)
            IN  IF pc = "UpdateCBs" /\ pc' = "Draw"
                THEN /\ i \in objWrites' <=> old > 0
                     /\ i \in objWrites' => (new = old - 1 /\ wrote)
                     /\ i \notin objWrites' => new = old
                ELSE new = old]_vars

\* An item has been written and counted down in two frames and is still dirty.
C7_Witness ==
    /\ pc = "Draw"
    /\ frame = 2
    /\ 0 \in Ritems
    /\ 0 \in objWrites
    /\ mAllRitems[0].NumFramesDirty = 1

\* payload is the matrix m with rows and columns exchanged.
IsTransposeOf(payload, m) ==
    /\ payload /= Uninit
    /\ \A r \in 1..4 : \A c \in 1..4 : payload[r][c] = m[c][r]

\* C8: with the transform set once at creation, the countdown stands at
\* N - k after k frames, and after N frames it is 0 and every slot's object
\* buffer holds the transposed World at the item's ObjCBIndex.
C8_Convergence ==
    \A i \in Ritems :
      /\ FramesUpdated < gNumFrameResources =>
           /\ mAllRitems[i].NumFramesDirty = gNumFrameResources - FramesUpdated
           /\ Cardinality({s \in Slots :
                  IsTransposeOf(mFrameResources[s].ObjectCB[mAllRitems[i].ObjCBIndex],
                                mAllRitems[i].World)}) = FramesUpdated
      /\ FramesUpdated >= gNumFrameResources =>
           /\ mAllRitems[i].NumFramesDirty = 0
           /\ \A s \in Slots :
                  IsTransposeOf(mFrameResources[s].ObjectCB[mAllRitems[i].ObjCBIndex],
                                mAllRitems[i].World)

\* The third frame has just written the last stale slot of the second item.
C8_Witness ==
    /\ pc = "Draw"
    /\ frame = gNumFrameResources
    /\ 1 \in Ritems
    /\ mAllRitems[1].NumFramesDirty = 0
    /\ mFrameResources[0].ObjectCB[1] = << <<10, 0, 0, 10>>, <<0, 10, 0, 30>>, <<0, 0, 10, 10>>, <<0, 0, 0, 10>> >>

\* C9: a transform change made while the countdown is in (0, N) sets the
\* countdown to exactly N; N frames after the last change the countdown is 0,
\* every slot holds the newest transposed World and none the superseded one.
C9_Superseding ==
    /\ [][\A i \in Ritems :
            (mAllRitems'[i].World /= mAllRitems[i].World
               /\ mAllRitems[i].NumFramesDirty \in 1..(gNumFrameResources - 1))
            => mAllRitems'[i].NumFramesDirty = gNumFrameResources]_vars
    /\ [](\A i \in Ritems : sweeps[i] = gNumFrameResources =>
            /\ mAllRitems[i].NumFramesDirty = 0
            /\ \A s \in Slots :
                 /\ IsTransposeOf(mFrameResources[s].ObjectCB[mAllRitems[i].ObjCBIndex],
                                  mAllRitems[i].World)
                 /\ superseded[i] /= Uninit =>
                      ~IsTransposeOf(mFrameResources[s].ObjectCB[mAllRitems[i].ObjCBIndex],
                                     superseded[i]))

\* The moved item was moved again while partly propagated, and N frames later
\* every slot holds the newest value.
C9_Witness ==
    /\ 0 \in Ritems
    /\ superseded[0] \in NewWorlds
    /\ sweeps[0] = gNumFrameResources
    /\ mAllRitems[0].NumFramesDirty = 0
    /\ mAllRitems[0].World \in NewWorlds
    /\ \A s \in Slots : IsTransposeOf(mFrameResources[s].ObjectCB[0], mAllRitems[0].World)

\* One step of the control thread inside a frame, after the fence test.
FrameStep == WaitReturn \/ UpdateCBs \/ DrawRecord \/ DrawExecute \/ DrawPresent \/ DrawStamp

\* C10: Update enters the fence wait only with N frames in flight (every slot
\* stamped and none of the N markers completed); with fewer than N in flight
\* the wait returns and no other step of Update or Draw can be held up.
C10_OnlyStallPoint ==
    /\ [][(pc = "Update" /\ pc' = "Wait") =>
            /\ InFlight = gNumFrameResources
            /\ \A s \in Slots : mFrameResources[s].Fence > mCurrentFence - gNumFrameResources
            /\ \A s \in Slots : mFrameResources[s].Fence >= mFrameResources[mCurrFrameResource'].Fence]_vars
    /\ []((pc = "Update" /\ frame < MaxFrames) => ENABLED UpdateStep)
    /\ []((pc = "Wait" /\ InFlight < gNumFrameResources) => ENABLED WaitReturn)
    /\ [](pc \in {"UpdateCBs", "Draw", "Execute", "Present", "Stamp"} => ENABLED FrameStep)

\* Update is blocked with the work and the markers of N frames still queued.
C10_Witness ==
    /\ pc = "Wait"
    /\ InFlight = gNumFrameResources
    /\ Len(mCommandQueue) >= 2 * gNumFrameResources

\* The positions of the control thread in the order Update and Draw pass them.
StepOrder ==
    { <<"Update", "Wait">>, <<"Update", "UpdateCBs">>, <<"Wait", "UpdateCBs">>,
      <<"UpdateCBs", "Draw">>, <<"Draw", "Execute">>, <<"Execute", "Present">>,
      <<"Present", "Stamp">>, <<"Stamp", "Update">> }

\* The command lists submitted and not yet finished.
QueuedLists == SelectSeq(mCommandQueue, LAMBDA e : e.kind = "ExecuteCommandLists")

\* C11: inside the frame loop the control thread passes Rotate/Synchronize,
\* the constant-buffer update, Record, Submit, Present and Stamp in this order
\* and each effect belongs to its own step: the ring index moves only in
\* Update, buffers are written only in the update step, the command list is
\* recorded only in Record, submitted only in Submit, the back buffer advances
\* only in Present, a slot's Fence changes only in Stamp, and the next frame's
\* Update starts only from the Stamp of the one before.
C11_StepOrder ==
    [][ /\ (pc' /= pc /\ pc \in {"Update", "Wait", "UpdateCBs", "Draw", "Execute", "Present", "Stamp"}
              /\ pc' /= "ExitFlush")
           => <<pc, pc'>> \in StepOrder
        /\ (frame' /= frame \/ mCurrFrameResourceIndex' /= mCurrFrameResourceIndex)
           => (pc = "Update" /\ pc' \in {"Wait", "UpdateCBs"} /\ frame' = frame + 1)
        /\ (pc /= "Initialize" /\ \E s \in Slots :
               \/ mFrameResources'[s].ObjectCB /= mFrameResources[s].ObjectCB
               \/ mFrameResources'[s].PassCB /= mFrameResources[s].PassCB)
           => (pc = "UpdateCBs" /\ pc' = "Draw")
        /\ (pc /= "Initialize" /\ mCommandList' /= mCommandList)
           => (pc = "Draw" /\ pc' = "Execute")
        /\ (pc /= "Initialize" /\ Len(QueuedLists') > Len(QueuedLists))
           => (pc = "Execute" /\ pc' = "Present")
        /\ mCurrBackBuffer' /= mCurrBackBuffer
           => (pc = "Present" /\ pc' = "Stamp")
        /\ (pc /= "Initialize" /\ \E s \in Slots : mFrameResources'[s].Fence /= mFrameResources[s].Fence)
           => (pc = "Stamp" /\ pc' = "Update")
        /\ (pc = "Stamp" /\ pc' = "Update")
           => mFrameResources'[mCurrFrameResource].Fence /= mFrameResources[mCurrFrameResource].Fence
      ]_vars

\* Two whole frames have run, each step having left its effect.
C11_Witness ==
    /\ pc = "Update"
    /\ frame = 2
    /\ mCurrBackBuffer = 0
    /\ mCommandList.alloc = mCurrFrameResource
    /\ CurrFence = mCurrentFence
    /\ mFrameResources[mCurrFrameResource].PassCB[0] /= Uninit

\* A Signal for marker m is queued behind the GPU, or the GPU is past m.
WillReach(m) ==
    \/ mFence >= m
    \/ \E k \in 1..Len(mCommandQueue) :
          mCommandQueue[k].kind = "Signal" /\ mCommandQueue[k].arg >= m

\* C12: once a device call of the frame sequence has failed, the control
\* thread is on the exception path out of the loop (no further step of the
\* frame, no later frame), and no slot carries a marker for which no Signal
\* was enqueued.
C12_FailureIsFatal ==
    /\ hr /= "S_OK" => pc \in {"Throw", "UnwindFlush", "Catch"}
    /\ \A s \in Slots : mFrameResources[s].Fence /= 0 => WillReach(mFrameResources[s].Fence)

\* C13: Stamp is always able to run and enqueues a Signal of exactly the
\* value it stored in the slot's Fence; with a GPU that works off its queue,
\* every stamped marker is eventually reached, every wait in Update returns,
\* every frame that was begun gets stamped, and the loop can always begin
\* the next frame (up to the bound MaxFrames of the model).
C13_MarkerLiveness ==
    /\ [][(pc = "Stamp" /\ pc' = "Update") =>
            /\ Len(mCommandQueue') = Len(mCommandQueue) + 1
            /\ mCommandQueue'[Len(mCommandQueue')] =
                 [kind |-> "Signal", arg |-> mFrameResources'[mCurrFrameResource].Fence]
            /\ mFrameResources'[mCurrFrameResource].Fence = mCurrentFence']_vars
    /\ [](pc = "Stamp" => ENABLED DrawStamp)
    /\ \A m \in 1..(MaxFrames + 2) :
          (\E s \in Slots : mFrameResources[s].Fence = m) ~> (mFence >= m)
    /\ (pc = "Wait") ~> (pc = "UpdateCBs")
    /\ \A f \in 1..MaxFrames :
          (frame = f) ~> (frame = f /\ pc \in {"Update", "ExitFlush", "Done"} /\ CurrFence /= 0)
    /\ [](pc = "Update" /\ frame < MaxFrames => ENABLED UpdateStep)

\* A wait returned in frame 5 and that frame was stamped with a marker the
\* GPU has reached.
C13_Witness ==
    /\ pc = "Update"
    /\ frame = 5
    /\ waited
    /\ CurrFence = mCurrentFence
    /\ mFence = mCurrentFence
    /\ mCommandQueue = <<>>

\* C14: the members of the application object (the ring slots among them) are
\* released only after the destructor's flush: the control thread reaches
\* "Done" only from the flush wait with the completed value at the last issued
\* marker, and at "Done" no submitted command list is unfinished and every
\* slot's marker has been reached.
C14_ShutdownDrains ==
    /\ [][pc' = "Done" /\ pc /= "Done" => pc = "ExitFlush" /\ mFence >= mCurrentFence]_vars
    /\ [](pc = "Done" =>
            /\ mFence = mCurrentFence
            /\ QueuedLists = <<>>
            /\ \A s \in Slots : mFrameResources[s].Fence <= mFence)

\* The destructor is blocked in its flush while command lists of stamped
\* frames are still queued.
C14_Witness ==
    /\ pc = "ExitFlush"
    /\ mFence < mCurrentFence
    /\ InFlight >= 2
    /\ Len(QueuedLists) >= 2

\* Some render item's ObjCBIndex lies outside the capacity the frame
\* resources were constructed with.
Misused ==
    \E i \in Ritems : \A s \in Slots : mAllRitems[i].ObjCBIndex \notin DOMAIN mFrameResources[s].ObjectCB

\* The heap indices whose views address the object buffer of slot s.
ObjectViewsOf(s) ==
    {h \in DOMAIN mCbvHeap : mCbvHeap[h].slot = s /\ mCbvHeap[h].buffer = "ObjectCB"}

\* C15: with a render item whose ObjCBIndex is outside the per-object
\* capacity, the first per-object update ends in a reported precondition
\* violation: the frame goes no further, the sweep has written only entries
\* inside the slot's buffer, and no command list is ever recorded that binds
\* a descriptor outside the current slot's object views.
C15_MisuseFailsLoudly ==
    /\ Misused /\ frame >= 1 /\ pc \notin {"Wait", "UpdateCBs"} => pc = "PreconditionViolation"
    /\ \A i \in objWrites :
          mAllRitems[i].ObjCBIndex \in DOMAIN mFrameResources[mCurrFrameResource].ObjectCB
    /\ \A k \in DOMAIN mCommandList.draws :
          mCommandList.draws[k].cbvIndex \in ObjectViewsOf(mCommandList.alloc)

\* The sweep stopped at the item with the default index after writing the
\* items before it.
C15_Witness ==
    /\ pc = "PreconditionViolation"
    /\ Misused
    /\ mAllRitems[NumRitems - 1].ObjCBIndex = 0 - 1
    /\ mAllRitems[NumRitems - 1].NumFramesDirty = gNumFrameResources
    /\ objWrites = Ritems \ {NumRitems - 1}
    /\ mCommandList.draws = <<>>

\* C16: the command list Draw records binds the pass view of the slot
\* selected by this frame's Update and, for each entry of mOpaqueRitems in
\* order, exactly one draw whose object view addresses that item's element
\* of the same slot's object buffer; no view of another slot is bound.
C16_RecordBindsCurrentSlot ==
    [][(pc = "Draw" /\ pc' = "Execute") =>
         /\ mCurrFrameResource = frame % gNumFrameResources
         /\ mCommandList'.alloc = mCurrFrameResource
         /\ mCommandList'.passCbv \in DOMAIN mCbvHeap
         /\ mCbvHeap[mCommandList'.passCbv] =
              [slot |-> mCurrFrameResource, buffer |-> "PassCB", element |-> 0]
         /\ Len(mCommandList'.draws) = Len(mOpaqueRitems)
         /\ \A k \in DOMAIN mOpaqueRitems :
              /\ mCommandList'.draws[k].item = mOpaqueRitems[k]
              /\ mCommandList'.draws[k].cbvIndex \in DOMAIN mCbvHeap
              /\ mCbvHeap[mCommandList'.draws[k].cbvIndex] =
                   [slot    |-> mCurrFrameResource,
                    buffer  |-> "ObjectCB",
                    element |-> mAllRitems[mOpaqueRitems[k]].ObjCBIndex]]_vars

\* Frame 1 (the second frame) has recorded its list against slot 2.
C16_Witness ==
    /\ pc = "Execute"
    /\ frame = 2
    /\ mCurrFrameResource = 2
    /\ mCommandList.passCbv = mPassCbvOffset + 2
    /\ Len(mCommandList.draws) = NumRitems
    /\ mCommandList.draws[1].cbvIndex = 2 * NumRitems
    /\ mCommandList.draws[NumRitems].cbvIndex = 3 * NumRitems - 1

\* C17: with gNumFrameResources = 3 and no transform change after the scene
\* is built, each object starts at countdown 3; the UpdateObjectCBs of frames
\* 0, 1 and 2 (frame = 1, 2, 3 here) each write the object's entry of the
\* current slot once and lower the countdown by one, 3 to 2 to 1 to 0; from
\* frame 3 on the object is skipped: no entry of it changes in any slot and
\* the countdown stays 0.
C17_ThreeFrameScenario ==
    [][(pc = "UpdateCBs" /\ pc' = "Draw") =>
         \A i \in Ritems :
            LET k == mAllRitems[i].ObjCBIndex IN
            IF frame <= 3
            THEN /\ mAllRitems[i].NumFramesDirty = 3 - (frame - 1)
                 /\ mAllRitems'[i].NumFramesDirty = 3 - frame
                 /\ i \in objWrites'
                 /\ mFrameResources[mCurrFrameResource].ObjectCB[k] = Uninit
                 /\ mFrameResources'[mCurrFrameResource].ObjectCB[k] /= Uninit
                 /\ \A s \in Slots \ {mCurrFrameResource} :
                       mFrameResources'[s].ObjectCB[k] = mFrameResources[s].ObjectCB[k]
            ELSE /\ mAllRitems[i].NumFramesDirty = 0
                 /\ mAllRitems'[i].NumFramesDirty = 0
                 /\ i \notin objWrites'
                 /\ \A s \in Slots :
                       mFrameResources'[s].ObjectCB[k] = mFrameResources[s].ObjectCB[k]]_vars

\* Frame 4 has run its UpdateObjectCBs without writing anything.
C17_Witness ==
    /\ pc = "Draw"
    /\ frame = 5
    /\ objWrites = {}
    /\ \A i \in Ritems : mAllRitems[i].NumFramesDirty = 0
    /\ \A s \in Slots : \A k \in DOMAIN mFrameResources[s].ObjectCB :
          mFrameResources[s].ObjectCB[k] /= Uninit

\* The fence test at the top of a frame: Update rotates and either enters
\* the wait or goes on.
UpdateSelects == pc = "Update" /\ pc' \in {"Wait", "UpdateCBs"}

\* Every slot of the ring carries a marker.
AllStamped == \A s \in Slots : mFrameResources[s].Fence /= 0

\* Number of markers by which the completed value is behind the last issued one.
Lag == mCurrentFence - mFence

C19_QueueOrdering ==
    /\ [][mFence' /= mFence =>
            /\ mCommandQueue /= <<>>
            /\ Head(mCommandQueue) = [kind |-> "Signal", arg |-> mFence']
            /\ mFence' > mFence
            /\ mCommandQueue' = Tail(mCommandQueue)]_vars
    /\ [][Len(QueuedLists') < Len(QueuedLists) =>
            /\ Head(mCommandQueue).kind = "ExecuteCommandLists"
            /\ mCommandQueue' = Tail(mCommandQueue)]_vars
    /\ [](\A j \in 1..Len(mCommandQueue) :
            mCommandQueue[j].kind = "Signal" =>
               /\ mCommandQueue[j].arg > mFence
               /\ \A k \in 1..(j - 1) :
                     mCommandQueue[k].kind = "Signal" => mCommandQueue[k].arg < mCommandQueue[j].arg)
    /\ [](\A s \in Slots :
            (/\ mFrameResources[s].Fence /= 0
             /\ mFence >= mFrameResources[s].Fence
             /\ ~(s = mCurrFrameResource /\ pc \in {"Present", "Stamp"}))
            => \A j \in 1..Len(mCommandQueue) :
                  mCommandQueue[j] /= [kind |-> "ExecuteCommandLists", arg |-> s])

\* The GPU has just reached the marker of frame 0 (slot 1) while the lists
\* and Signals of frames 1 and 2 are still queued behind it.
C19_Witness ==
    /\ frame = 3
    /\ pc = "Update"
    /\ mFence = mFrameResources[1].Fence
    /\ Len(mCommandQueue) = 4
    /\ Head(mCommandQueue) = [kind |-> "ExecuteCommandLists", arg |-> 2]
    /\ mCommandQueue[4] = [kind |-> "Signal", arg |-> mFrameResources[0].Fence]

\* A step of the control thread, failing device calls and the exception
\* path included.
CpuMove == NextFail /\ pc' /= pc

\* C20: while Update is in its wait and the completed value is below the
\* selected slot's marker, the control thread can take no step at all, not
\* a return, not a later step, not a throw; the wait is left only into the
\* rest of Update and only with the marker reached.  With a GPU that never
\* reaches the marker the thread therefore stays in the wait for ever and
\* no later frame begins.
C20_WaitHasNoWayOut ==
    /\ [](pc = "Wait" /\ mFence < CurrFence => ~ENABLED CpuMove)
    /\ [][pc = "Wait" =>
            \/ pc' = "Wait" /\ frame' = frame /\ hr' = hr /\ mCurrentFence' = mCurrentFence
            \/ pc' = "UpdateCBs" /\ mFence >= CurrFence /\ frame' = frame /\ hr' = hr]_vars

\* Update waits for a marker the idle GPU will never reach (its Signal and
\* those after it were lost).
C20_Witness ==
    /\ pc = "Wait"
    /\ mCommandQueue = <<>>
    /\ mFence < CurrFence
    /\ ~ENABLED NextFail

\* A GPU step that runs the command list at the head of the queue.
GpuRunsList ==
    /\ mCommandQueue /= <<>>
    /\ Head(mCommandQueue).kind = "ExecuteCommandLists"
    /\ mCommandQueue' = Tail(mCommandQueue)

\* C21: the command stream Draw records starts with the transition of the
\* current back buffer from PRESENT to RENDER_TARGET and ends with the
\* transition back, with the clears and all draws between them and no other
\* transition; mCurrBackBuffer changes only after Present and then by one
\* modulo SwapChainBufferCount.  When the GPU runs a list every transition
\* finds the buffer in its before-state and the clear finds a render target,
\* and between lists every back buffer is in the PRESENT state.
C21_PresentationBracketing ==
    /\ [][(pc = "Draw" /\ pc' = "Execute") =>
            LET c == mFrameResources'[mCurrFrameResource].CmdListAlloc IN
              /\ Len(c) = 6 + 2 * Len(mOpaqueRitems)
              /\ c[1] = Barrier(mCurrBackBuffer, "PRESENT", "RENDER_TARGET")
              /\ c[Len(c)] = Barrier(mCurrBackBuffer, "RENDER_TARGET", "PRESENT")
              /\ \A j \in 2..(Len(c) - 1) : c[j].op /= "ResourceBarrier"
              /\ c[2] = [op |-> "ClearRenderTargetView", resource |-> mCurrBackBuffer]
              /\ Cardinality({j \in 2..(Len(c) - 1) : c[j].op = "DrawIndexedInstanced"})
                   = Len(mOpaqueRitems)]_vars
    /\ [][mCurrBackBuffer' /= mCurrBackBuffer =>
            /\ pc = "Present"
            /\ mCurrBackBuffer' = (mCurrBackBuffer + 1) % SwapChainBufferCount]_vars
    /\ [][(pc = "Present" /\ pc' = "Stamp") => mCurrBackBuffer' /= mCurrBackBuffer]_vars
    /\ [][GpuRunsList =>
            ExecuteCmds(CmdsOf(Head(mCommandQueue)), 1,
                        [states |-> mSwapChainBuffer, ok |-> TRUE]).ok]_vars
    /\ [](\A b \in DOMAIN mSwapChainBuffer : mSwapChainBuffer[b] = "PRESENT")

\* Three frames are through the GPU; the lists of frames 0 and 2 were
\* recorded against back buffer 0, that of frame 1 against back buffer 1.
C21_Witness ==
    /\ pc = "Update"
    /\ frame = 3
    /\ mCurrBackBuffer = 1
    /\ mCommandQueue = <<>>
    /\ mFrameResources[1].CmdListAlloc[1] = Barrier(0, "PRESENT", "RENDER_TARGET")
    /\ mFrameResources[2].CmdListAlloc[1] = Barrier(1, "PRESENT", "RENDER_TARGET")
    /\ mFrameResources[0].CmdListAlloc[1] = Barrier(0, "PRESENT", "RENDER_TARGET")
    /\ \A b \in DOMAIN mSwapChainBuffer : mSwapChainBuffer[b] = "PRESENT"

\* C22: the step of Update that follows the fence test writes the pass
\* constants of this frame into entry 0 of the current slot's pass buffer,
\* in every frame, whether or not any object was written; no other slot's
\* pass buffer changes in that step, and no pass buffer changes in any
\* other step.
C22_PassConstantsEveryFrame ==
    /\ [][(pc = "UpdateCBs" /\ pc' = "Draw") =>
            /\ DOMAIN mFrameResources'[mCurrFrameResource].PassCB = {0}
            /\ mFrameResources'[mCurrFrameResource].PassCB[0] = UpdateMainPassCB(frame)
            /\ mFrameResources'[mCurrFrameResource].PassCB[0] /= mFrameResources[mCurrFrameResource].PassCB[0]
            /\ \A s \in Slots \ {mCurrFrameResource} :
                  mFrameResources'[s].PassCB = mFrameResources[s].PassCB]_vars
    /\ [][(pc /= "Initialize" /\ \E s \in Slots : mFrameResources'[s].PassCB /= mFrameResources[s].PassCB)
            => (pc = "UpdateCBs" /\ pc' = "Draw")]_vars

\* Frame 5 wrote no object (all countdowns are 0) and still published its
\* pass constants, over those of frame 2 in the same slot.
C22_Witness ==
    /\ pc = "Draw"
    /\ frame = 6
    /\ objWrites = {}
    /\ mFrameResources[mCurrFrameResource].PassCB[0].TotalTime = 6
    /\ mFrameResources[Rotate(mCurrFrameResource)].PassCB[0].TotalTime = 4
    /\ mFrameResources[Rotate(Rotate(mCurrFrameResource))].PassCB[0].TotalTime = 5

\* The synchronization core of the state: everything the frame loop's
\* control flow, ring, markers and countdowns consist of, without the
\* wireframe flag and without what Draw recorded.
SyncCore ==
    [pc            |-> pc,
     idx           |-> mCurrFrameResourceIndex,
     cur           |-> mCurrFrameResource,
     Fence         |-> [s \in Slots |-> mFrameResources[s].Fence],
     mCurrentFence |-> mCurrentFence,
     mFence        |-> mFence,
     queue         |-> mCommandQueue,
     dirty         |-> [i \in Ritems |-> mAllRitems[i].NumFramesDirty],
     frame         |-> frame,
     waited        |-> waited]

\* Each operation's guard and effect as a function of the core alone.
Can_Initialize(c) == c.pc = "Initialize"

Core_Initialize(c) ==
    [c EXCEPT !.pc = "InitFlush",
              !.Fence = [s \in 0..(gNumFrameResources - 1) |-> 0],
              !.dirty = [i \in 0..(NumRitems - 1) |-> gNumFrameResources],
              !.mCurrentFence = @ + 1,
              !.queue = @ \o << [kind |-> "ExecuteCommandLists", arg |-> nullptr],
                                [kind |-> "Signal", arg |-> c.mCurrentFence + 1] >>]

Can_FlushWait(c) == c.pc \in {"InitFlush", "ExitFlush"} /\ c.mFence >= c.mCurrentFence

Core_FlushWait(c) == [c EXCEPT !.pc = IF @ = "InitFlush" THEN "Update" ELSE "Done"]

Can_Update(c) == c.pc = "Update" /\ c.frame < MaxFrames

Core_Update(c) ==
    LET i == Rotate(c.idx)
        block == MustWait(c.Fence[i], c.mFence)
    IN [c EXCEPT !.idx = i, !.cur = i, !.waited = block, !.frame = @ + 1,
                 !.pc = IF block THEN "Wait" ELSE "UpdateCBs"]

Can_WaitReturn(c) == c.pc = "Wait" /\ EventSignaled(c.Fence[c.cur], c.mFence)

Core_WaitReturn(c) == [c EXCEPT !.pc = "UpdateCBs"]

Can_UpdateCBs(c) == c.pc = "UpdateCBs"

Core_UpdateCBs(c) ==
    [c EXCEPT !.pc = "Draw",
              !.dirty = [i \in DOMAIN c.dirty |-> IF c.dirty[i] > 0 THEN c.dirty[i] - 1 ELSE c.dirty[i]]]

Can_DrawRecord(c) == c.pc = "Draw"

Core_DrawRecord(c) == [c EXCEPT !.pc = "Execute"]

Can_DrawExecute(c) == c.pc = "Execute"

Core_DrawExecute(c) ==
    [c EXCEPT !.pc = "Present",
              !.queue = Append(@, [kind |-> "ExecuteCommandLists", arg |-> c.cur])]

Can_DrawPresent(c) == c.pc = "Present"

Core_DrawPresent(c) == [c EXCEPT !.pc = "Stamp"]

Can_DrawStamp(c) == c.pc = "Stamp"

Core_DrawStamp(c) ==
    [c EXCEPT !.pc = "Update",
              !.mCurrentFence = NextFence(@),
              !.Fence[c.cur] = NextFence(c.mCurrentFence),
              !.queue = Append(@, [kind |-> "Signal", arg |-> NextFence(c.mCurrentFence)])]

Can_Destructor(c) == c.pc = "Update"

Core_Destructor(c) ==
    [c EXCEPT !.pc = "ExitFlush",
              !.mCurrentFence = @ + 1,
              !.queue = Append(@, [kind |-> "Signal", arg |-> c.mCurrentFence + 1])]

Can_GpuExecute(c) == c.queue /= <<>> /\ Head(c.queue).kind = "ExecuteCommandLists"

Core_GpuExecute(c) == [c EXCEPT !.queue = Tail(@)]

Can_GpuSignal(c) == c.queue /= <<>> /\ Head(c.queue).kind = "Signal"

Core_GpuSignal(c) == [c EXCEPT !.queue = Tail(@), !.mFence = Head(c.queue).arg]

\* C23: the wireframe flag is written only at the start of Update, from
\* the key state sampled there, and read only by Draw to choose the pipeline
\* state it records with.  Every operation is enabled according to the
\* synchronization core alone and changes the core as a function of the core
\* alone, whatever the flag and the sampled key are; so two runs with the
\* same schedule and different toggle values pass through the same ring
\* indices, markers, fence values, wait decisions and countdowns.
C23_ToggleNonInterference ==
    /\ [][mIsWireframe' /= mIsWireframe => UpdateSelects]_vars
    /\ [][\A key \in KeyStates :
            Update(key) => mIsWireframe' = KeyDown(key) /\ SyncCore' = Core_Update(SyncCore)]_vars
    /\ [][DrawRecord =>
            /\ mCommandList'.pso = (IF mIsWireframe THEN "opaque_wireframe" ELSE "opaque")
            /\ SyncCore' = Core_DrawRecord(SyncCore)]_vars
    /\ [][Initialize => SyncCore' = Core_Initialize(SyncCore)]_vars
    /\ [][FlushWait => SyncCore' = Core_FlushWait(SyncCore)]_vars
    /\ [][WaitReturn => SyncCore' = Core_WaitReturn(SyncCore)]_vars
    /\ [][UpdateCBs => SyncCore' = Core_UpdateCBs(SyncCore)]_vars
    /\ [][DrawExecute => SyncCore' = Core_DrawExecute(SyncCore)]_vars
    /\ [][DrawPresent => SyncCore' = Core_DrawPresent(SyncCore)]_vars
    /\ [][DrawStamp => SyncCore' = Core_DrawStamp(SyncCore)]_vars
    /\ [][Destructor => SyncCore' = Core_Destructor(SyncCore)]_vars
    /\ [][GpuExecute => SyncCore' = Core_GpuExecute(SyncCore)]_vars
    /\ [][GpuSignal => SyncCore' = Core_GpuSignal(SyncCore)]_vars
    /\ [](/\ (ENABLED Initialize) <=> Can_Initialize(SyncCore)
          /\ (ENABLED FlushWait) <=> Can_FlushWait(SyncCore)
          /\ \A key \in KeyStates : (ENABLED Update(key)) <=> Can_Update(SyncCore)
          /\ (ENABLED WaitReturn) <=> Can_WaitReturn(SyncCore)
          /\ (ENABLED UpdateCBs) <=> Can_UpdateCBs(SyncCore)
          /\ (ENABLED DrawRecord) <=> Can_DrawRecord(SyncCore)
          /\ (ENABLED DrawExecute) <=> Can_DrawExecute(SyncCore)
          /\ (ENABLED DrawPresent) <=> Can_DrawPresent(SyncCore)
          /\ (ENABLED DrawStamp) <=> Can_DrawStamp(SyncCore)
          /\ (ENABLED Destructor) <=> Can_Destructor(SyncCore)
          /\ (ENABLED GpuExecute) <=> Can_GpuExecute(SyncCore)
          /\ (ENABLED GpuSignal) <=> Can_GpuSignal(SyncCore))

\* A frame that had to wait and was recorded in wireframe, after frames
\* recorded solid.
C23_Witness ==
    /\ pc = "Execute"
    /\ frame = 5
    /\ waited
    /\ mIsWireframe
    /\ mCommandList.pso = "opaque_wireframe"
    /\ mFence < mCurrentFence

\* The pipeline state the fence test and the wait must leave alone, the ring
\* index apart: slot markers, slot buffers, mCurrentFence, the render items.
PipelineState ==
    << [s \in Slots |-> mFrameResources[s].Fence],
       [s \in Slots |-> mFrameResources[s].ObjectCB],
       [s \in Slots |-> mFrameResources[s].PassCB],
       mCurrentFence, mAllRitems >>

\* C24: the step of Update that rotates and tests the fence changes the ring
\* index by the rotation and nothing else of the pipeline state, whichever
\* way the test goes; while Update waits, and when the wait returns, the
\* ring index and the pipeline state stay as they are.  Only the completed
\* value moves, by the GPU.
C24_SynchronizeMutatesNothing ==
    /\ [][UpdateSelects =>
            /\ PipelineState' = PipelineState
            /\ mCurrFrameResourceIndex' = Rotate(mCurrFrameResourceIndex)
            /\ mFence' = mFence]_vars
    /\ [][pc = "Wait" =>
            /\ PipelineState' = PipelineState
            /\ mCurrFrameResourceIndex' = mCurrFrameResourceIndex
            /\ mCurrFrameResource' = mCurrFrameResource
            /\ mFence' >= mFence
            /\ pc' \in {"Wait", "UpdateCBs"}]_vars

\* The wait was taken and has returned: the GPU moved the completed value up
\* to the slot's marker while Update stood still.
C24_Witness ==
    /\ pc = "UpdateCBs"
    /\ waited
    /\ frame = 4
    /\ mFence = CurrFence
    /\ mCurrentFence = CurrFence + (gNumFrameResources - 1)
    /\ \A i \in Ritems : mAllRitems[i].NumFramesDirty = 0

\* Some command list submitted and not yet finished was recorded into the
\* allocator of slot s, and so references that slot's buffers as well.
ReferencedByGpu(s) ==
    \E j \in 1..Len(mCommandQueue) :
       mCommandQueue[j].kind = "ExecuteCommandLists" /\ mCommandQueue[j].arg = s

\* C25: whenever a step of the control thread changes a constant buffer of
\* a slot or the contents of its command allocator, no command list that is
\* submitted and unfinished references that slot, however CPU steps and GPU
\* completions interleave; the slot being written or reset is the current one.
C25_RaceFreedom ==
    /\ [][\A s \in Slots :
            (/\ pc /= "Initialize"
             /\ \/ mFrameResources'[s].ObjectCB /= mFrameResources[s].ObjectCB
                \/ mFrameResources'[s].PassCB /= mFrameResources[s].PassCB
                \/ mFrameResources'[s].CmdListAlloc /= mFrameResources[s].CmdListAlloc)
            => s = mCurrFrameResource /\ ~ReferencedByGpu(s)]_vars
    /\ [](pc \in {"UpdateCBs", "Draw"} => ~ReferencedByGpu(mCurrFrameResource))

\* The frame that had to wait has rewritten its slot's buffers and allocator
\* while the lists of the two other slots are still queued.
C25_Witness ==
    /\ pc = "Execute"
    /\ frame = 4
    /\ waited
    /\ Len(QueuedLists) = 2
    /\ ReferencedByGpu(Rotate(mCurrFrameResource))
    /\ ReferencedByGpu(Rotate(Rotate(mCurrFrameResource)))
    /\ ~ReferencedByGpu(mCurrFrameResource)

\* The command lists of frames (not the initialization list) that are
\* submitted and unfinished.
QueuedFrameLists == SelectSeq(QueuedLists, LAMBDA e : e.arg /= nullptr)

\* C26: the frames in flight, that is the slots whose stamped marker the
\* completed value has not reached, number at most N in every state, and at
\* most N-1 from the moment Update is past the fence test and wait until the
\* frame is stamped; the GPU never holds more than N unfinished frame lists.
C26_BoundedInFlight ==
    /\ InFlight <= gNumFrameResources
    /\ pc \in {"UpdateCBs", "Draw", "Execute", "Present", "Stamp"} => InFlight <= gNumFrameResources - 1
    /\ Len(QueuedFrameLists) <= gNumFrameResources
    /\ Len(QueuedFrameLists) <= InFlight + (IF pc \in {"Present", "Stamp"} THEN 1 ELSE 0)

\* The frame about to be stamped runs with the two other slots in flight;
\* its own list is the third the GPU has not finished.
C26_Witness ==
    /\ pc = "Stamp"
    /\ InFlight = gNumFrameResources - 1
    /\ Len(QueuedFrameLists) = gNumFrameResources
    /\ mFence = CurrFence

\* Number of frames that have been stamped, from the control position.
FramesStamped ==
    IF pc \in {"Wait", "UpdateCBs", "Draw", "Execute", "Present", "Stamp"} THEN frame - 1 ELSE frame

\* Slot s was the current slot of a frame that has been stamped.
EverStamped(s) == \E f \in 1..FramesStamped : f % gNumFrameResources = s

\* C27: a slot's Fence is 0 exactly as long as no frame using the slot has
\* been stamped; a stamped marker is at least 1 and at most mCurrentFence;
\* two stamped slots never hold the same marker; the Stamp step leaves the
\* current slot with mCurrentFence, above the marker of every other slot.
C27_SentinelSoundness ==
    /\ [](\A s \in Slots :
            /\ (mFrameResources[s].Fence = 0) <=> ~EverStamped(s)
            /\ mFrameResources[s].Fence /= 0 =>
                  mFrameResources[s].Fence >= 1 /\ mFrameResources[s].Fence <= mCurrentFence
            /\ \A t \in Slots \ {s} :
                  mFrameResources[s].Fence /= 0 => mFrameResources[s].Fence /= mFrameResources[t].Fence)
    /\ [][(pc = "Stamp" /\ pc' = "Update") =>
            /\ mFrameResources'[mCurrFrameResource].Fence = mCurrentFence'
            /\ \A t \in Slots \ {mCurrFrameResource} :
                  mFrameResources'[t].Fence < mFrameResources'[mCurrFrameResource].Fence]_vars

\* After the second frame's Stamp: slots 1 and 2 carry markers, slot 0 still
\* carries the sentinel.
C27_Witness ==
    /\ pc = "Update"
    /\ frame = 2
    /\ mFrameResources[0].Fence = 0
    /\ mFrameResources[1].Fence = 2
    /\ mFrameResources[2].Fence = 3
    /\ mCurrentFence = 3

\* The initialization command list is the queue entry submitted with no frame allocator.
InitListQueued == \E i \in DOMAIN mCommandQueue :
                     mCommandQueue[i].kind = "ExecuteCommandLists" /\ mCommandQueue[i].arg = nullptr

\* The control positions between Update's slot selection and the end of Draw.
InFrame == pc \in {"Wait", "UpdateCBs", "Draw", "Execute", "Present", "Stamp"}

\* C28: Initialize submits the initialization list followed by the flush's
\* Signal, and no frame starts before the GPU has run both; in frames 1..N
\* the selected slot is frame % N (each slot once), its Fence is 0 when it is
\* selected, and Update goes on to the constant-buffer writes without waiting,
\* whatever the completed value is.
C28_StartUpPhase ==
    /\ [][(pc = "Initialize" /\ pc' /= "Initialize") =>
            /\ pc' = "InitFlush"
            /\ mCommandQueue' = <<[kind |-> "ExecuteCommandLists", arg |-> nullptr],
                                  [kind |-> "Signal", arg |-> mCurrentFence']>>]_vars
    /\ [](pc \notin {"Initialize", "InitFlush"} => ~InitListQueued /\ mFence >= 1)
    /\ [][(UpdateSelects /\ frame' <= gNumFrameResources) =>
            /\ mFrameResources[mCurrFrameResource'].Fence = 0
            /\ pc' = "UpdateCBs"
            /\ ~waited']_vars
    /\ [](InFrame /\ frame <= gNumFrameResources =>
            /\ mCurrFrameResource = frame % gNumFrameResources
            /\ pc /= "Wait"
            /\ \A s \in Slots : Cardinality({f \in 1..gNumFrameResources :
                                                 f % gNumFrameResources = s}) = 1)

\* The Nth frame passes the fence test while the GPU has completed no frame.
C28_Witness ==
    /\ pc = "UpdateCBs"
    /\ frame = gNumFrameResources
    /\ mCurrFrameResource = 0
    /\ mFence = 1
    /\ mCurrentFence = gNumFrameResources
    /\ ~waited

\* ObjCBIndex of the render items of ShapesApp::BuildRenderItems, in the order
\* in which they are pushed to mAllRitems.
ShapesApp_ObjCBIndex ==
    <<0, 1, 2, 3, 4, 5, 6, 7, 8, 9, 10, 11, 12, 13, 14, 15, 16, 17, 18, 19, 20, 21, 22, 23, 24, 25>>

\* ObjCBIndex of the render items of CrateApp::BuildRenderItems, in push order.
CrateApp_ObjCBIndex ==
    <<0, 1, 2, 3, 4, 5, 6, 7, 8, 9, 10, 11, 12, 13, 14, 15, 16, 17, 18, 19, 20, 21, 22, 23, 24, 25, 26>>

\* MatCBIndex of the materials of CrateApp::BuildMaterials, by key of mMaterials.
CrateApp_MatCBIndex ==
    [woodCrate |-> 0, bricks |-> 1, grass |-> 2, marble |-> 3, treeSprites |-> 4]

\* CrateApp::BuildFrameResources, called after BuildMaterials and
\* BuildRenderItems: the capacities handed to each FrameResource.
CrateApp_BuildFrameResources ==
    [s \in 0..(gNumFrameResources - 1) |->
        [passCount |-> 1, objectCount |-> Len(CrateApp_ObjCBIndex),
         materialCount |-> Cardinality(DOMAIN CrateApp_MatCBIndex)]]

\* The indices of table t are pairwise distinct and lie in 0..capacity-1.
IndexLayoutOk(t, capacity) ==
    /\ \A i \in DOMAIN t : t[i] >= 0 /\ t[i] < capacity
    /\ \A i, j \in DOMAIN t : i /= j => t[i] /= t[j]

\* C29: once Initialize has run, every slot's object buffer has one entry
\* per render item, the items' ObjCBIndex values are pairwise distinct and
\* inside that capacity, no per-object update ever meets an index outside the
\* buffer, and an update leaves in each written item's entry that item's own
\* constants; the index tables of both applications (render items, and
\* CrateApp's materials) are distinct and below the capacities passed to
\* FrameResource.
C29_CapacityAndIndexLayout ==
    /\ [](pc /= "Initialize" =>
            /\ \A s \in Slots :
                  /\ DOMAIN mFrameResources[s].ObjectCB = 0..(Cardinality(Ritems) - 1)
                  /\ DOMAIN mFrameResources[s].PassCB = {0}
            /\ IndexLayoutOk([i \in Ritems |-> mAllRitems[i].ObjCBIndex], Cardinality(Ritems)))
    /\ [](pc /= "PreconditionViolation")
    /\ [][(pc = "UpdateCBs" /\ pc' /= "UpdateCBs") =>
            /\ pc' = "Draw"
            /\ DOMAIN mFrameResources'[mCurrFrameResource].ObjectCB =
                  DOMAIN mFrameResources[mCurrFrameResource].ObjectCB
            /\ \A i \in objWrites' :
                  mFrameResources'[mCurrFrameResource].ObjectCB[mAllRitems[i].ObjCBIndex] =
                     XMMatrixTranspose(mAllRitems[i].World)]_vars
    /\ [](/\ IndexLayoutOk(ShapesApp_ObjCBIndex, Len(ShapesApp_ObjCBIndex))
          /\ \A s \in DOMAIN CrateApp_BuildFrameResources :
                /\ CrateApp_BuildFrameResources[s].objectCount = Len(CrateApp_ObjCBIndex)
                /\ IndexLayoutOk(CrateApp_ObjCBIndex, CrateApp_BuildFrameResources[s].objectCount)
                /\ IndexLayoutOk(CrateApp_MatCBIndex, CrateApp_BuildFrameResources[s].materialCount))

\* The first frame's update has written every item into its own entry of slot 1.
C29_Witness ==
    /\ pc = "Draw"
    /\ frame = 1
    /\ objWrites = Ritems
    /\ \A i \in Ritems : mFrameResources[1].ObjectCB[i] = XMMatrixTranspose(RitemWorld(i))
    /\ mFrameResources[1].ObjectCB[0] /= mFrameResources[1].ObjectCB[NumRitems - 1]

\* BuildDescriptorHeaps: UINT numDescriptors = (objCount + 1) * gNumFrameResources.
numDescriptors == (Len(mOpaqueRitems) + 1) * gNumFrameResources

\* BuildConstantBufferViews, as its two loops run: the CreateConstantBufferView
\* calls, each with the heap index of its handle and the buffer entry of its
\* BufferLocation.
BuildConstantBufferViews ==
    LET objCount == Len(mOpaqueRitems) IN
      {[heapIndex |-> frameIndex * objCount + i,
        view |-> [slot |-> frameIndex, buffer |-> "ObjectCB", element |-> i]] :
           frameIndex \in 0..(gNumFrameResources - 1), i \in 0..(objCount - 1)}
      \cup
      {[heapIndex |-> mPassCbvOffset + frameIndex,
        view |-> [slot |-> frameIndex, buffer |-> "PassCB", element |-> 0]] :
           frameIndex \in 0..(gNumFrameResources - 1)}

\* The views BuildConstantBufferViews created at heap index h.
ViewsAt(h) == {c.view : c \in {d \in BuildConstantBufferViews : d.heapIndex = h}}

\* C30: for every slot index f and render item i, the heap index
\* f*objCount + ObjCBIndex(i) of the draw is below mPassCbvOffset =
\* objCount*N, differs for different (f, i), and is the index at which
\* BuildConstantBufferViews created the one view of slot f's object buffer
\* entry ObjCBIndex(i); mPassCbvOffset + f is below numDescriptors =
\* (objCount+1)*N and holds the one view of slot f's pass buffer; a recorded
\* frame binds exactly these indices for the current slot.
C30_DescriptorHeapLayout ==
    pc /= "Initialize" =>
      LET objCount == Len(mOpaqueRitems)
          idx(f, i) == CbvIndex(f, objCount, mAllRitems[i].ObjCBIndex)
      IN
      /\ mPassCbvOffset = objCount * gNumFrameResources
      /\ numDescriptors = (objCount + 1) * gNumFrameResources
      /\ \A f \in Slots : \A i \in Ritems :
            /\ idx(f, i) >= 0 /\ idx(f, i) < mPassCbvOffset
            /\ \A g \in Slots : \A j \in Ritems :
                  idx(f, i) = idx(g, j) => f = g /\ i = j
            /\ ViewsAt(idx(f, i)) =
                  {[slot |-> f, buffer |-> "ObjectCB", element |-> mAllRitems[i].ObjCBIndex]}
            /\ mCbvHeap[idx(f, i)] \in ViewsAt(idx(f, i))
      /\ \A f \in Slots :
            /\ mPassCbvOffset + f >= mPassCbvOffset /\ mPassCbvOffset + f < numDescriptors
            /\ ViewsAt(mPassCbvOffset + f) = {[slot |-> f, buffer |-> "PassCB", element |-> 0]}
            /\ mCbvHeap[mPassCbvOffset + f] \in ViewsAt(mPassCbvOffset + f)
      /\ {c.heapIndex : c \in BuildConstantBufferViews} = 0..(numDescriptors - 1)
      /\ pc \in {"Execute", "Present", "Stamp"} =>
            /\ mCommandList.passCbv = mPassCbvOffset + mCurrFrameResourceIndex
            /\ \A k \in DOMAIN mOpaqueRitems :
                  mCommandList.draws[k].cbvIndex = idx(mCurrFrameResourceIndex, mOpaqueRitems[k])

\* A frame recorded for the last slot: its last item binds the last object
\* view, right below the pass views, and its pass view is the last descriptor.
C30_Witness ==
    /\ pc = "Present"
    /\ mCurrFrameResourceIndex = gNumFrameResources - 1
    /\ mCommandList.draws[Len(mOpaqueRitems)].cbvIndex = mPassCbvOffset - 1
    /\ mCommandList.passCbv = numDescriptors - 1

====
